---------------------------- MODULE Spec2Model ----------------------------
(* A model of salt/modules/boto_ec2.py: the EC2 instance operations        *)
(* (find_instances, create_image, terminate, get_id, exists, run,          *)
(* get_attribute, set_attribute) and the network-interface operations.     *)
(*                                                                         *)
(* The remote provider is the only persistent state: the instances and     *)
(* the network interfaces it holds.  Every remote call may be rejected by  *)
(* the provider (boto raises BotoServerError / EC2ResponseError); the      *)
(* rejection is an input of the action (\E ok \in BOOLEAN).                *)
(*                                                                         *)
(* `last' observes the most recent call: the shape of its selector, the    *)
(* number of remote resources the selector matched when the call began,    *)
(* what the call returned or raised, the remote calls it issued and the    *)
(* remote resources it changed.                                            *)
(*                                                                         *)
(* _describe_network_interface is a function of a boto interface object:   *)
(* SpecDescribe applies it to the objects of a bounded set, `projected'    *)
(* being the object it is given and `projections' the records it returned. *)
EXTENDS Integers, Sequences, FiniteSets

\* ------------------------------------------------------------------ bounds
MaxInst == 2
MaxPolls == 2
MaxEni == 2
MaxSeq == 2

InstIds == 1..MaxInst
EniIds == 1..MaxEni

\* Python's None for a string argument, and for an id argument.
None == "None"
NoId == 0

\* The Name tag value callers use, and the one tags dict run is given
\* ({"role": "web"}).  Instances are matched by id and by Name tag; the
\* further tag:<k> filters of find_instances narrow a match the way tag:Name
\* does and are not modelled.
Names == {"web1"}
Roles == {"web"}

\* The Name tag value callers give a network interface.
EniNames == {"eni1"}

\* The callers whose create_network_interface calls interleave.
Callers == {"c1", "c2"}

VARIABLES scope, instances, run_state, enis, creating, last,
          projected, projections

vars == <<scope, instances, run_state, enis, creating, last,
          projected, projections>>

\* ----------------------------------------------------------------- helpers
RECURSIVE SetToSeq(_)
SetToSeq(S) ==
  IF S = {} THEN <<>>
  ELSE LET m == CHOOSE x \in S : \A y \in S : x <= y
       IN <<m>> \o SetToSeq(S \ {m})

Call(api, tgt, ok) == [api |-> api, tgt |-> tgt, ok |-> ok]

\* The remote calls that change the provider's state.
MutatingApis ==
  {"terminate", "create_image", "modify_instance_attribute", "run_instances",
   "add_tag", "add_tags", "create_network_interface",
   "delete_network_interface", "attach_network_interface",
   "detach_network_interface", "modify_network_interface_attribute"}

CallsTo(calls, apis) == {k \in 1..Len(calls) : calls[k].api \in apis}

\* What a call gave back: out is "True", "False", "None", "value" (an id, a
\* dict or an envelope), "raise", or "" while the call has not returned.
Outcome(out, exc, val, calls) ==
  [out |-> out, exc |-> exc, val |-> val, keys |-> {}, msg |-> "",
   calls |-> calls]

Returns(out, val, calls) == Outcome(out, "", val, calls)

\* The r dict of the network-interface functions: the keys it holds when it
\* is returned, the id under 'result' and the message under 'error'.
Envelope(keys, val, msg, calls) ==
  [out |-> "value", exc |-> "", val |-> val, keys |-> keys, msg |-> msg,
   calls |-> calls]
Raises(exc, calls) == Outcome("raise", exc, NoId, calls)

\* n is the number of resources the call's selector matched when it began
\* (for run: the status checks made), matched the resources themselves.
Observed(op, sel, n, arg, r, touched) ==
  [op |-> op, sel |-> sel, n |-> n, matched |-> {}, arg |-> arg, out |-> r.out,
   exc |-> r.exc, val |-> r.val, keys |-> r.keys, msg |-> r.msg,
   calls |-> r.calls, touched |-> touched]

Selected(op, sel, matched, arg, r, touched) ==
  [Observed(op, sel, Cardinality(matched), arg, r, touched)
     EXCEPT !.matched = matched]

NoCall == Observed("", "none", 0, "", Returns("", NoId, <<>>), {})

\* What the provider does with a call's remote calls: it answers them all,
\* rejects the lookup, or answers the lookup and rejects the call after it.
Replies == {"ok", "lookup_rejected", "call_rejected"}

SelectorShape(id, name) ==
  IF id # NoId /\ name # None THEN "both"
  ELSE IF id # NoId THEN "id"
  ELSE IF name # None THEN "name"
  ELSE "none"

\* --------------------------------------------------------------- instances
NoInst == [status |-> "absent", name |-> None]

Present(i) == instances[i].status # "absent"

\* The instances get_all_instances answers with for the filters
\* find_instances builds: instance_ids and tag:Name.
MatchingInstances(instance_id, name) ==
  {i \in InstIds :
     /\ Present(i)
     /\ instance_id # NoId => i = instance_id
     /\ name # None => instances[i].name = name}

\* find_instances: the matches in the provider's order, or False (found =
\* FALSE) when nothing matches and when the provider rejects the query.
find_instances(instance_id, name, ok) ==
  LET m == MatchingInstances(instance_id, name)
  IN IF ok /\ m # {}
     THEN [found |-> TRUE, ids |-> SetToSeq(m)]
     ELSE [found |-> FALSE, ids |-> <<>>]

FindCall(ok) == Call("get_all_instances", NoId, ok)

\* terminate's test on the number of instances found.
terminate_any(found) == Len(found) >= 1

terminate_one(found) == Len(found) = 1

\* The instances terminate calls terminate() on.
terminate_all_present(found) == {i \in InstIds : Present(i)}

terminate_targets(found) == {found[1]}

terminate(instance_id, name, okFind, okCall) ==
  LET f == find_instances(instance_id, name, okFind)
      tgts == terminate_targets(f.ids)
      calls == <<FindCall(okFind)>> \o
               [k \in 1..Cardinality(tgts) |->
                  Call("terminate", SetToSeq(tgts)[k], okCall)]
  IN IF ~f.found THEN [r |-> Returns("False", NoId, <<FindCall(okFind)>>),
                       insts |-> instances]
     ELSE IF terminate_one(f.ids)
     THEN IF okCall
          THEN [r |-> Returns("True", NoId, calls),
                insts |-> [i \in InstIds |->
                             IF i \in tgts
                             THEN [instances[i] EXCEPT !.status = "terminated"]
                             ELSE instances[i]]]
          ELSE [r |-> Raises("BotoServerError", calls), insts |-> instances]
     ELSE [r |-> Returns("False", NoId, <<FindCall(okFind)>>),
           insts |-> instances]

Changed(new) == {i \in InstIds : new[i] # instances[i]}

Terminate ==
  /\ scope = "ec2"
  /\ run_state.pc = "idle"
  /\ \E instance_id \in {NoId} \cup InstIds, name \in {None} \cup Names,
        reply \in Replies :
       LET t == terminate(instance_id, name, reply # "lookup_rejected", reply = "ok")
       IN /\ instances' = t.insts
          /\ last' = Selected("terminate", SelectorShape(instance_id, name),
                              MatchingInstances(instance_id, name),
                              "", t.r, Changed(t.insts))
  /\ UNCHANGED <<projected, projections, scope, run_state, enis, creating>>

\* ------------------------------------------------------------ create_image
create_image(instance_id, instance_name, okFind, okCall) ==
  LET f == find_instances(instance_id, instance_name, okFind)
      lookup == <<FindCall(okFind)>>
  IN IF ~f.found THEN Returns("False", NoId, lookup)
     ELSE IF Len(f.ids) > 1 THEN Returns("False", NoId, lookup)
     ELSE IF okCall
     THEN Returns("value", f.ids[1], lookup \o <<Call("create_image", f.ids[1], TRUE)>>)
     ELSE Returns("False", NoId, lookup \o <<Call("create_image", f.ids[1], FALSE)>>)

CreateImage ==
  /\ scope = "ec2"
  /\ run_state.pc = "idle"
  /\ \E instance_id \in {NoId} \cup InstIds, instance_name \in {None} \cup Names,
        reply \in Replies :
       last' = Selected("create_image", SelectorShape(instance_id, instance_name),
                        MatchingInstances(instance_id, instance_name),
                        "", create_image(instance_id, instance_name,
                                         reply # "lookup_rejected", reply = "ok"),
                        {})
  /\ UNCHANGED <<projected, projections, scope, instances, run_state, enis, creating>>

\* ------------------------------------------------------------------ get_id
get_id(name, okFind) ==
  LET f == find_instances(NoId, name, okFind)
      lookup == <<FindCall(okFind)>>
  IN IF f.found
     THEN IF Len(f.ids) = 1 THEN Returns("value", f.ids[1], lookup)
          ELSE Raises("CommandExecutionError", lookup)
     ELSE Returns("None", NoId, lookup)

GetId ==
  /\ scope = "ec2"
  /\ run_state.pc = "idle"
  /\ \E name \in {None} \cup Names, okFind \in BOOLEAN :
       last' = Selected("get_id", SelectorShape(NoId, name),
                        MatchingInstances(NoId, name),
                        "", get_id(name, okFind), {})
  /\ UNCHANGED <<projected, projections, scope, instances, run_state, enis, creating>>

\* ------------------------------------------------------------------ exists
exists(instance_id, name, okFind) ==
  IF find_instances(instance_id, name, okFind).found
  THEN Returns("True", NoId, <<FindCall(okFind)>>)
  ELSE Returns("False", NoId, <<FindCall(okFind)>>)

Exists ==
  /\ scope = "ec2"
  /\ run_state.pc = "idle"
  /\ \E instance_id \in {NoId} \cup InstIds, name \in {None} \cup Names,
        okFind \in BOOLEAN :
       last' = Selected("exists", SelectorShape(instance_id, name),
                        MatchingInstances(instance_id, name),
                        "", exists(instance_id, name, okFind), {})
  /\ UNCHANGED <<projected, projections, scope, instances, run_state, enis, creating>>

\* ------------------------------------------------ get_attribute, set_attribute
attribute_list ==
  <<"instanceType", "kernel", "ramdisk", "userData", "disableApiTermination",
    "instanceInitiatedShutdownBehavior", "rootDeviceName", "blockDeviceMapping",
    "productCodes", "sourceDestCheck", "groupSet", "ebsOptimized",
    "sriovNetSupport">>

Listed(attribute) == \E k \in 1..Len(attribute_list) : attribute_list[k] = attribute

\* The attribute strings callers pass: the first and the last of the
\* allow-listed ones, and the network-interface spelling of an allowed
\* attribute, which is not in the list.
Attributes == {"instanceType", "sriovNetSupport", "source_dest_check"}

\* The checks both functions make before their try block; "" when they pass.
validate_attribute_unlisted(attribute, instance_name, instance_id) ==
  IF instance_name = None /\ instance_id = NoId THEN "SaltInvocationError"
  ELSE IF instance_name # None /\ instance_id # NoId THEN "SaltInvocationError"
  ELSE ""

validate_attribute(attribute, instance_name, instance_id) ==
  IF instance_name = None /\ instance_id = NoId THEN "SaltInvocationError"
  ELSE IF instance_name # None /\ instance_id # NoId THEN "SaltInvocationError"
  ELSE IF ~Listed(attribute) THEN "SaltInvocationError"
  ELSE ""

\* The name lookup of both functions: len(instances) != 1 on what
\* find_instances returned, which is False (len() of it is a TypeError) when
\* nothing matched or the query was rejected.
resolve_instance_name(instance_name, okFind) ==
  LET f == find_instances(NoId, instance_name, okFind)
  IN IF ~f.found THEN [exc |-> "TypeError", id |-> NoId]
     ELSE IF Len(f.ids) # 1 THEN [exc |-> "CommandExecutionError", id |-> NoId]
     ELSE [exc |-> "", id |-> f.ids[1]]

\* reply: what the provider answers to get_instance_attribute /
\* modify_instance_attribute: a value, a falsy value, or a rejection.
instance_attribute(api, attribute, instance_name, instance_id, okFind, reply) ==
  LET invalid == validate_attribute(attribute, instance_name, instance_id)
      res == resolve_instance_name(instance_name, okFind)
      lookup == IF instance_name # None THEN <<FindCall(okFind)>> ELSE <<>>
      id == IF instance_name # None THEN res.id ELSE instance_id
      calls == lookup \o <<Call(api, id, reply # "rejected")>>
  IN IF invalid # "" THEN Raises(invalid, <<>>)
     ELSE IF instance_name # None /\ res.exc # "" THEN Raises(res.exc, lookup)
     ELSE IF reply = "rejected" THEN Returns("False", NoId, calls)
     ELSE IF reply = "falsy" THEN Returns("False", NoId, calls)
     ELSE Returns("value", id, calls)

get_attribute(attribute, instance_name, instance_id, okFind, reply) ==
  instance_attribute("get_instance_attribute", attribute, instance_name,
                     instance_id, okFind, reply)

set_attribute(attribute, instance_name, instance_id, okFind, reply) ==
  instance_attribute("modify_instance_attribute", attribute, instance_name,
                     instance_id, okFind, reply)

AttributeReplies == {"value", "falsy", "rejected"}

ListedOrNot(attribute) == IF Listed(attribute) THEN "listed" ELSE "unlisted"

GetAttribute ==
  /\ scope = "ec2"
  /\ run_state.pc = "idle"
  /\ \E attribute \in Attributes, instance_name \in {None} \cup Names,
        instance_id \in {NoId} \cup InstIds, okFind \in BOOLEAN :
       \E reply \in IF okFind THEN AttributeReplies ELSE {"value"} :
       last' = Selected("get_attribute", SelectorShape(instance_id, instance_name),
                        MatchingInstances(instance_id, instance_name),
                        ListedOrNot(attribute),
                        get_attribute(attribute, instance_name, instance_id, okFind, reply),
                        {})
  /\ UNCHANGED <<projected, projections, scope, instances, run_state, enis, creating>>

SetAttribute ==
  /\ scope = "ec2"
  /\ run_state.pc = "idle"
  /\ \E attribute \in Attributes, instance_name \in {None} \cup Names,
        instance_id \in {NoId} \cup InstIds, okFind \in BOOLEAN :
       \E reply \in IF okFind THEN AttributeReplies ELSE {"value"} :
       last' = Selected("set_attribute", SelectorShape(instance_id, instance_name),
                        MatchingInstances(instance_id, instance_name),
                        ListedOrNot(attribute),
                        set_attribute(attribute, instance_name, instance_id, okFind, reply),
                        {})
  /\ UNCHANGED <<projected, projections, scope, instances, run_state, enis, creating>>

\* --------------------------------------------------------------------- run
Idle == [pc |-> "idle", inst |-> NoId, name |-> None, tags |-> None, polls |-> 0]

FreeInst == {i \in InstIds : ~Present(i)}

\* run up to its polling loop: the launch.  run_instances is not inside a
\* try, so a rejection propagates; a falsy reservation returns False.
RunLaunch ==
  /\ scope = "ec2"
  /\ run_state.pc = "idle"
  /\ FreeInst # {}
  /\ \E name \in {None} \cup Names, tags \in {None} \cup Roles,
        reply \in {"reserved", "refused", "rejected"} :
       LET i == CHOOSE x \in FreeInst : \A y \in FreeInst : x <= y
           call == <<Call("run_instances", NoId, reply # "rejected")>>
       IN CASE reply = "rejected" ->
                 /\ last' = Observed("run", "none", 0, "", Raises("BotoServerError", call), {})
                 /\ UNCHANGED <<instances, run_state>>
            [] reply = "refused" ->
                 /\ last' = Observed("run", "none", 0, "", Returns("False", NoId, call), {})
                 /\ UNCHANGED <<instances, run_state>>
            [] reply = "reserved" ->
                 /\ instances' = [instances EXCEPT ![i] =
                                    [status |-> "pending", name |-> None]]
                 /\ run_state' = [pc |-> "poll", inst |-> i, name |-> name,
                                  tags |-> tags, polls |-> 0]
                 /\ last' = Observed("run", "none", 0, "", Returns("", i, call), {i})
  /\ UNCHANGED <<projected, projections, scope, enis, creating>>

\* One turn of `while status == 'pending'': sleep, instance.update(), and,
\* once the status is no longer pending, the rest of run.  The status checks
\* are counted (up to MaxPolls + 1, where the count stops); the calls
\* observed are the launch, the last status check and the tagging.
RunPoll ==
  /\ scope = "ec2"
  /\ run_state.pc = "poll"
  /\ \E okUpdate \in BOOLEAN, okName \in BOOLEAN, okTags \in BOOLEAN :
       LET i == run_state.inst
           status == instances[i].status
           polls == IF run_state.polls <= MaxPolls THEN run_state.polls + 1
                    ELSE run_state.polls
           nameCall == IF run_state.name # None
                       THEN <<Call("add_tag", i, okName)>> ELSE <<>>
           tagsCall == IF run_state.tags # None /\ (run_state.name = None \/ okName)
                       THEN <<Call("add_tags", i, okTags)>> ELSE <<>>
           named == IF run_state.name # None /\ okName
                    THEN [instances EXCEPT ![i].name = run_state.name]
                    ELSE instances
           ok == /\ run_state.name # None => okName
                 /\ run_state.tags # None => okTags
           polled == last.calls \o <<Call("update", i, okUpdate)>>
           calls == polled \o nameCall \o tagsCall
           done(r, insts) ==
             /\ last' = Observed("run", "none", polls,
                                 IF okUpdate THEN status ELSE "", r, {i})
             /\ instances' = insts
             /\ run_state' = Idle
       IN IF ~okUpdate
          THEN done(Raises("BotoServerError", polled), instances)
          ELSE IF status = "pending"
          THEN /\ run_state' = [run_state EXCEPT !.polls = polls]
               /\ UNCHANGED <<instances, last>>
          ELSE IF status = "running"
          THEN IF ok THEN done(Returns("True", i, calls), named)
               ELSE done(Raises("BotoServerError", calls), named)
          ELSE done(Returns("None", i, polled), instances)
  /\ UNCHANGED <<projected, projections, scope, enis, creating>>

\* The provider: a pending instance starts, or fails to start.
InstanceTransition ==
  /\ scope = "ec2"
  /\ \E i \in InstIds, s \in {"running", "terminated"} :
       /\ instances[i].status = "pending"
       /\ instances' = [instances EXCEPT ![i].status = s]
  /\ UNCHANGED <<projected, projections, scope, run_state, last, enis, creating>>

\* ------------------------------------------------------ network interfaces
NoEni == [present |-> FALSE, name |-> None, attached |-> FALSE]

NotCreating == [pc |-> "idle", name |-> None, seen |-> 0, eni |-> NoId]

NoEnisFound == "No ENIs found."
MultipleEnis == "Name specified is tagged on multiple ENIs."
NameInUse == "An ENI with this Name tag already exists."
NoVpc == "subnet_id does not map to a valid vpc id."
NoAttachmentId == "Attachment id not found for this ENI."
NoAttachmentIdToModify == "No attachment id found for this ENI."
NoGroupIds == "Security groups do not map to valid security group ids"
RemoteError == "boto.get_error"

\* The interfaces get_all_network_interfaces answers with: the one with the
\* id when an id is given, else those whose Name tag is the name.
MatchingEnis(name, network_interface_id) ==
  {e \in EniIds :
     /\ enis[e].present
     /\ IF network_interface_id # NoId THEN e = network_interface_id
        ELSE enis[e].name = name}

LookupCall(ok) == Call("get_all_network_interfaces", NoId, ok)

\* The error the two lookups put in r for the interfaces found, "" for none.
lookup_error_first_of_many(found) ==
  IF Len(found) = 0 THEN NoEnisFound ELSE ""

lookup_error(found) ==
  IF Len(found) = 0 THEN NoEnisFound
  ELSE IF Len(found) > 1 THEN MultipleEnis
  ELSE ""

\* The keys of the r a lookup returns.
lookup_keys_some_found(found) ==
  IF Len(found) = 0 THEN {"error"} ELSE {"result"}

lookup_keys(found) ==
  IF lookup_error(found) # "" THEN {"error"} ELSE {"result"}

\* The lookups read enis after their try block; a rejected query leaves it
\* unassigned, and the read raises UnboundLocalError.
lookup(name, network_interface_id, ok) ==
  LET found == SetToSeq(MatchingEnis(name, network_interface_id))
  IN IF ~ok
     THEN [exc |-> "UnboundLocalError", keys |-> {}, msg |-> "", eni |-> NoId]
     ELSE [exc |-> "", keys |-> lookup_keys(found), msg |-> lookup_error(found),
           eni |-> IF Len(found) > 0 THEN found[1] ELSE NoId]

_get_network_interface(name, network_interface_id, ok) ==
  IF name = None /\ network_interface_id = NoId
  THEN [exc |-> "SaltInvocationError", keys |-> {}, msg |-> "", eni |-> NoId]
  ELSE lookup(name, network_interface_id, ok)

\* What a caller that returns the lookup's r on 'error' gives back.
LookupFailed(res) == res.exc # "" \/ "error" \in res.keys

FromLookup(res, calls) ==
  IF res.exc # "" THEN Raises(res.exc, calls)
  ELSE Envelope(res.keys, NoId, res.msg, calls)

get_network_interface_id(name, ok) ==
  LET res == lookup(name, NoId, ok)
  IN IF res.exc # "" THEN Raises(res.exc, <<LookupCall(ok)>>)
     ELSE IF "error" \in res.keys
     THEN Envelope(res.keys, NoId, res.msg, <<LookupCall(ok)>>)
     ELSE Envelope(res.keys, res.eni, "", <<LookupCall(ok)>>)

\* ---------------------------------------------- _describe_network_interface
\* A boto interface object: attrs are the attributes set on it (hasattr),
\* each with its value, which may be None; attachment is the attributes set
\* on its attachment object, none when the attachment is None.
attr_list ==
  <<"status", "description", "availability_zone", "requesterId",
    "requester_managed", "mac_address", "private_ip_address", "vpc_id", "id",
    "source_dest_check", "owner_id", "tags", "subnet_id", "associationId",
    "publicDnsName", "owner_id", "ipOwnerId", "publicIp", "allocationId">>

attachment_attr_list ==
  <<"status", "attach_time", "device_index", "delete_on_termination",
    "instance_id", "instance_owner_id", "id">>

Elements(seq) == {seq[k] : k \in 1..Len(seq)}

hasattr_with_value(obj, attr) == attr \in DOMAIN obj /\ obj[attr] # None

hasattr(obj, attr) == attr \in DOMAIN obj

\* The attributes of the list that obj has, each with obj's value of it.
copy_attrs(obj, list) ==
  [attr \in {a \in Elements(list) : hasattr(obj, a)} |-> obj[attr]]

describe_groups(groups) ==
  [k \in 1..Len(groups) |-> [name |-> groups[k].name, id |-> groups[k].id]]

describe_addresses(addresses) ==
  [k \in 1..Len(addresses) |->
     [private_ip_address |-> addresses[k].private_ip_address,
      primary |-> addresses[k].primary]]

\* r as the function returns it: a dict, keyed by the names assigned in it.
_describe_network_interface(eni) ==
  LET scalars == copy_attrs(eni.attrs, attr_list)
      added == {"region", "groups", "private_ip_addresses", "attachment"}
  IN [key \in DOMAIN scalars \cup added |->
        CASE key = "region" -> eni.region
          [] key = "groups" -> describe_groups(eni.groups)
          [] key = "private_ip_addresses" ->
               describe_addresses(eni.private_ip_addresses)
          [] key = "attachment" -> copy_attrs(eni.attachment, attachment_attr_list)
          [] OTHER -> scalars[key]]

\* The object get_all_network_interfaces answers with for interface e: the
\* id is there, and the attachment, whose id is e's, when e is attached.
EniObject(e) ==
  [attrs |-> [a \in {"id"} |-> e],
   region |-> "region",
   groups |-> <<>>,
   private_ip_addresses |-> <<>>,
   attachment |-> [a \in IF enis[e].attached THEN {"id"} ELSE {} |-> e]]

\* The objects the function is applied to.  "connection" is an attribute boto
\* objects carry that is on neither list.
NoAttrs == [a \in {} |-> None]

NoObject ==
  [attrs |-> NoAttrs, region |-> "region", groups |-> <<>>,
   private_ip_addresses |-> <<>>, attachment |-> NoAttrs]

AttrSettings(names, values) == UNION {[S -> values] : S \in SUBSET names}

SeqsUpTo(S) == UNION {[1..n -> S] : n \in 0..MaxSeq}

GroupObjects ==
  {[name |-> "g1", id |-> "sg-1", connection |-> "conn"],
   [name |-> "g2", id |-> "sg-2", connection |-> "conn"]}

AddressObjects ==
  {[private_ip_address |-> "10.0.0.1", primary |-> TRUE, connection |-> "conn"],
   [private_ip_address |-> "10.0.0.2", primary |-> FALSE, connection |-> "conn"]}

EniObjects ==
  [attrs : AttrSettings({"status", "id", "connection"}, {None, "v"}),
   region : {"region"},
   groups : SeqsUpTo(GroupObjects),
   private_ip_addresses : SeqsUpTo(AddressObjects),
   attachment : AttrSettings({"id", "connection"}, {"v"})]

\* One call of _describe_network_interface on the object: it assigns to r
\* only, and the object is as it was.
Describe ==
  /\ scope = "describe"
  /\ Len(projections) < 2
  /\ projections' = Append(projections, _describe_network_interface(projected))
  /\ UNCHANGED <<projected, scope, instances, run_state, enis, creating, last>>

get_network_interface(name, network_interface_id, ok) ==
  LET res == _get_network_interface(name, network_interface_id, ok)
      calls == IF res.exc = "SaltInvocationError" THEN <<>> ELSE <<LookupCall(ok)>>
  IN IF res.exc # "" THEN Raises(res.exc, calls)
     ELSE IF "error" \in res.keys
     THEN IF res.msg = NoEnisFound THEN Envelope({"result"}, NoId, "", calls)
          ELSE Envelope(res.keys, NoId, res.msg, calls)
     ELSE Envelope({"result"}, _describe_network_interface(EniObject(res.eni)).id, "", calls)

\* The selector the lookup uses: the id when there is one, else the name.
EniShape(name, network_interface_id) ==
  IF network_interface_id # NoId THEN "id"
  ELSE IF name # None THEN "name"
  ELSE "none"

EniObserved(op, name, network_interface_id, arg, r, new) ==
  Selected(op, EniShape(name, network_interface_id),
           IF name = None /\ network_interface_id = NoId THEN {}
           ELSE MatchingEnis(name, network_interface_id),
           arg, r, {e \in EniIds : new[e] # enis[e]})

NoneCreating == \A c \in Callers : creating[c].pc = "idle"

GetNetworkInterfaceId ==
  /\ scope = "eni"
  /\ NoneCreating
  /\ \E name \in EniNames, ok \in BOOLEAN :
       last' = EniObserved("get_network_interface_id", name, NoId, "",
                           get_network_interface_id(name, ok), enis)
  /\ UNCHANGED <<projected, projections, scope, instances, run_state, enis, creating>>

GetNetworkInterface ==
  /\ scope = "eni"
  /\ NoneCreating
  /\ \E name \in {None} \cup EniNames, network_interface_id \in {NoId} \cup EniIds,
        ok \in BOOLEAN :
       last' = EniObserved("get_network_interface", name, network_interface_id, "",
                           get_network_interface(name, network_interface_id, ok), enis)
  /\ UNCHANGED <<projected, projections, scope, instances, run_state, enis, creating>>

\* ------------------------------------------------ create_network_interface
\* The name-in-use test on what _get_network_interface returned.
name_in_use(res) == "result" \in res.keys

FreeEni == {e \in EniIds : ~enis[e].present}

CreateObserved(seen, arg, r, created) ==
  Observed("create_network_interface", "name", seen, arg, r, created)

\* create_network_interface up to its test of the name: the lookup by name.
CreateLookup(c) ==
  /\ scope = "eni"
  /\ creating[c].pc = "idle"
  /\ \E name \in EniNames, ok \in BOOLEAN :
       LET res == _get_network_interface(name, NoId, ok)
           n == Cardinality(MatchingEnis(name, NoId))
           calls == <<LookupCall(ok)>>
       IN IF res.exc # ""
          THEN /\ last' = CreateObserved(n, "", Raises(res.exc, calls), {})
               /\ UNCHANGED creating
          ELSE IF name_in_use(res)
          THEN /\ last' = CreateObserved(n, "", Envelope({"error"}, NoId, NameInUse, calls), {})
               /\ UNCHANGED creating
          ELSE /\ last' = CreateObserved(n, "", Returns("", NoId, calls), {})
               /\ creating' = [creating EXCEPT ![c] =
                                 [pc |-> "create", name |-> name, seen |-> n,
                                  eni |-> NoId]]
  /\ UNCHANGED <<projected, projections, scope, instances, run_state, enis>>

\* Whether create_network_interface goes on to the create call with the VPC
\* id and the group ids its collaborators resolved.
may_create(vpc_id, groups) == vpc_id # None

\* What the collaborators resolved: get_subnet_association no VPC id; else
\* convert_to_group_ids no group ids; else both.
CreateInputs(vpc_id, groups) ==
  IF vpc_id = None THEN "no_vpc"
  ELSE IF groups = "empty" THEN "no_group_ids"
  ELSE "resolved"

\* From the subnet's VPC to the create call.  The provider accepts the call
\* when it can hold one more interface.
CreateCall(c) ==
  /\ scope = "eni"
  /\ creating[c].pc = "create"
  /\ \E vpc_id \in {None, "vpc-1"}, groups \in {"ids", "empty"}, ok \in BOOLEAN :
       LET e == CHOOSE x \in FreeEni : \A y \in FreeEni : x <= y
           accepted == ok /\ FreeEni # {}
           looked == <<LookupCall(TRUE)>>
           calls == looked \o <<Call("create_network_interface",
                                     IF accepted THEN e ELSE NoId, accepted)>>
       IN IF ~may_create(vpc_id, groups)
          THEN /\ last' = CreateObserved(creating[c].seen, CreateInputs(vpc_id, groups),
                                         Envelope({"error"}, NoId, NoVpc, looked), {})
               /\ creating' = [creating EXCEPT ![c] = NotCreating]
               /\ UNCHANGED enis
          ELSE IF ~accepted
          THEN /\ last' = CreateObserved(creating[c].seen, CreateInputs(vpc_id, groups),
                                         Envelope({"error"}, NoId, RemoteError, calls), {})
               /\ creating' = [creating EXCEPT ![c] = NotCreating]
               /\ UNCHANGED enis
          ELSE /\ last' = CreateObserved(creating[c].seen, CreateInputs(vpc_id, groups),
                                         Returns("", e, calls), {e})
               /\ enis' = [enis EXCEPT ![e] =
                             [present |-> TRUE, name |-> None, attached |-> FALSE]]
               /\ creating' = [creating EXCEPT ![c].pc = "tag", ![c].eni = e]
  /\ UNCHANGED <<projected, projections, scope, instances, run_state>>

\* eni.add_tag('Name', name) and the return.
CreateTag(c) ==
  /\ scope = "eni"
  /\ creating[c].pc = "tag"
  /\ \E ok \in BOOLEAN :
       LET e == creating[c].eni
           calls == <<LookupCall(TRUE), Call("create_network_interface", e, TRUE),
                      Call("add_tag", e, ok)>>
       IN /\ IF ok
             THEN /\ enis' = [enis EXCEPT ![e].name = creating[c].name]
                  /\ last' = CreateObserved(creating[c].seen, "",
                               Envelope({"result"},
                                        _describe_network_interface(EniObject(e)).id,
                                        "", calls), {e})
             ELSE /\ UNCHANGED enis
                  /\ last' = CreateObserved(creating[c].seen, "",
                               Envelope({"error"}, NoId, RemoteError, calls), {e})
          /\ creating' = [creating EXCEPT ![c] = NotCreating]
  /\ UNCHANGED <<projected, projections, scope, instances, run_state>>

\* ------------------------------------------------ delete_network_interface
NoEffect(r) == [r |-> r, enis |-> enis]

\* The envelope of a mutating call: 'result' when the provider accepts it,
\* 'error' when boto raises.
call_envelope_result_first(accepted, val, calls) ==
  IF accepted THEN Envelope({"result"}, val, "", calls)
  ELSE Envelope({"result", "error"}, NoId, RemoteError, calls)

call_envelope(accepted, val, calls) ==
  IF accepted THEN Envelope({"result"}, val, "", calls)
  ELSE Envelope({"error"}, NoId, RemoteError, calls)

delete_network_interface(name, network_interface_id, okFind, okCall) ==
  LET res == _get_network_interface(name, network_interface_id, okFind)
      looked == <<LookupCall(okFind)>>
      e == _describe_network_interface(EniObject(res.eni)).id
      accepted == okCall /\ ~enis[e].attached
      calls == looked \o <<Call("delete_network_interface", e, accepted)>>
  IN IF name = None /\ network_interface_id = NoId
     THEN NoEffect(Raises("SaltInvocationError", <<>>))
     ELSE IF LookupFailed(res) THEN NoEffect(FromLookup(res, looked))
     ELSE [r |-> call_envelope(accepted, e, calls),
           enis |-> IF accepted THEN [enis EXCEPT ![e] = NoEni] ELSE enis]

DeleteNetworkInterface ==
  /\ scope = "eni"
  /\ NoneCreating
  /\ \E name \in {None} \cup EniNames, network_interface_id \in {NoId} \cup EniIds,
        reply \in Replies :
       LET d == delete_network_interface(name, network_interface_id,
                                         reply # "lookup_rejected", reply = "ok")
       IN /\ enis' = d.enis
          /\ last' = EniObserved("delete_network_interface", name,
                                 network_interface_id, "", d.r, d.enis)
  /\ UNCHANGED <<projected, projections, scope, instances, run_state, creating>>

\* ------------------------------------------------ attach_network_interface
NoIndex == -1

\* The test attach_network_interface makes of instance_id and device_index.
attach_inputs_given(instance_id, device_index) ==
  instance_id # NoId /\ device_index # NoIndex /\ device_index # 0

attach_network_interface(name, network_interface_id, instance_id, device_index, okFind, okCall) ==
  LET res == _get_network_interface(name, network_interface_id, okFind)
      looked == <<LookupCall(okFind)>>
      e == _describe_network_interface(EniObject(res.eni)).id
      accepted == okCall /\ ~enis[e].attached
      calls == looked \o <<Call("attach_network_interface", e, accepted)>>
  IN IF name = None /\ network_interface_id = NoId
     THEN NoEffect(Raises("SaltInvocationError", <<>>))
     ELSE IF ~attach_inputs_given(instance_id, device_index)
     THEN NoEffect(Raises("SaltInvocationError", <<>>))
     ELSE IF LookupFailed(res) THEN NoEffect(FromLookup(res, looked))
     ELSE [r |-> call_envelope(accepted, e, calls),
           enis |-> IF accepted THEN [enis EXCEPT ![e].attached = TRUE] ELSE enis]

AttachInputs(instance_id, device_index) ==
  IF instance_id = NoId THEN "no_instance_id"
  ELSE IF device_index = NoIndex THEN "no_device_index"
  ELSE IF device_index = 0 THEN "device_index_0"
  ELSE "device_index_1"

\* The instance_id and device_index pairs callers pass.
AttachTargets == {<<NoId, 1>>, <<1, NoIndex>>, <<1, 0>>, <<1, 1>>}

AttachNetworkInterface ==
  /\ scope = "eni"
  /\ NoneCreating
  /\ \E name \in {None} \cup EniNames, network_interface_id \in {NoId} \cup EniIds,
        target \in AttachTargets, reply \in Replies :
       LET instance_id == target[1]
           device_index == target[2]
           a == attach_network_interface(name, network_interface_id, instance_id,
                                         device_index, reply # "lookup_rejected",
                                         reply = "ok")
       IN /\ enis' = a.enis
          /\ last' = EniObserved("attach_network_interface", name,
                                 network_interface_id,
                                 AttachInputs(instance_id, device_index), a.r, a.enis)
  /\ UNCHANGED <<projected, projections, scope, instances, run_state, creating>>

\* ------------------------------------------------ detach_network_interface
\* The attachment of interface e has the id e.
detach_network_interface(name, network_interface_id, attachment_id, okFind, okCall) ==
  LET res == _get_network_interface(name, network_interface_id, okFind)
      looked == IF attachment_id = NoId THEN <<LookupCall(okFind)>> ELSE <<>>
      info == _describe_network_interface(EniObject(res.eni))
      a == IF attachment_id # NoId THEN attachment_id ELSE info.id
      accepted == okCall /\ enis[a].present /\ enis[a].attached
      calls == looked \o <<Call("detach_network_interface", a, accepted)>>
      detach == [r |-> call_envelope(accepted, a, calls),
                 enis |-> IF accepted THEN [enis EXCEPT ![a].attached = FALSE]
                          ELSE enis]
  IN IF name = None /\ network_interface_id = NoId /\ attachment_id = NoId
     THEN NoEffect(Raises("SaltInvocationError", <<>>))
     ELSE IF attachment_id # NoId THEN detach
     ELSE IF LookupFailed(res) THEN NoEffect(FromLookup(res, looked))
     ELSE IF "id" \notin DOMAIN info.attachment
     THEN NoEffect(Envelope({"error"}, NoId, NoAttachmentId, looked))
     ELSE detach

DetachNetworkInterface ==
  /\ scope = "eni"
  /\ NoneCreating
  /\ \E name \in {None} \cup EniNames, network_interface_id \in {NoId} \cup EniIds,
        attachment_id \in {NoId} \cup EniIds, reply \in Replies :
       LET d == detach_network_interface(name, network_interface_id, attachment_id,
                                         reply # "lookup_rejected", reply = "ok")
       IN /\ enis' = d.enis
          /\ last' = IF attachment_id # NoId
                     THEN EniObserved("detach_network_interface", None, NoId,
                                      "attachment_id", d.r, d.enis)
                     ELSE EniObserved("detach_network_interface", name,
                                      network_interface_id, "", d.r, d.enis)
  /\ UNCHANGED <<projected, projections, scope, instances, run_state, creating>>

\* -------------------------------------- modify_network_interface_attribute
\* The attribute name the API requires.
munge(attr) ==
  IF attr = "groups" THEN "groupSet"
  ELSE IF attr = "source_dest_check" THEN "sourceDestCheck"
  ELSE IF attr = "delete_on_termination" THEN "deleteOnTermination"
  ELSE attr

\* Whether modifying _attr needs the attachment's id.
needs_no_attachment_id(_attr) == FALSE

needs_attachment_id(_attr) == _attr = "deleteOnTermination"

\* The attributes modify sets (a description, the source/dest check, the
\* groups, delete-on-termination) are read by no operation of the module: the
\* call is what is observed of it.  groups is what convert_to_group_ids
\* answers for a groupSet value.
modify_network_interface_attribute(name, network_interface_id, attr, value, groups, okFind, okCall) ==
  LET res == _get_network_interface(name, network_interface_id, okFind)
      looked == <<LookupCall(okFind)>>
      info == _describe_network_interface(EniObject(res.eni))
      _attr == munge(attr)
      calls == looked \o <<Call("modify_network_interface_attribute", info.id, okCall)>>
  IN IF name = None /\ network_interface_id = NoId
     THEN Raises("SaltInvocationError", <<>>)
     ELSE IF attr = None /\ value = None THEN Raises("SaltInvocationError", <<>>)
     ELSE IF LookupFailed(res) THEN FromLookup(res, looked)
     ELSE IF _attr = "groupSet" /\ groups = "empty"
     THEN Envelope({"error"}, NoId, NoGroupIds, looked)
     ELSE IF needs_attachment_id(_attr) /\ "id" \notin DOMAIN info.attachment
     THEN Envelope({"error"}, NoId, NoAttachmentIdToModify, looked)
     ELSE call_envelope(okCall, info.id, calls)

\* The attr and value pairs callers pass.
AttrValues ==
  {<<None, None>>, <<"description", "v">>, <<"groups", "v">>,
   <<"source_dest_check", "v">>, <<"delete_on_termination", "v">>}

ModifyNetworkInterfaceAttribute ==
  /\ scope = "eni"
  /\ NoneCreating
  /\ \E name \in {None} \cup EniNames, network_interface_id \in {NoId} \cup EniIds,
        av \in AttrValues, reply \in Replies :
       \E groups \in IF av[1] = "groups" THEN {"ids", "empty"} ELSE {"ids"} :
         last' = EniObserved("modify_network_interface_attribute", name,
                             network_interface_id, av[1],
                             modify_network_interface_attribute(
                               name, network_interface_id, av[1], av[2], groups,
                               reply # "lookup_rejected", reply = "ok"),
                             enis)
  /\ UNCHANGED <<projected, projections, scope, instances, run_state, enis, creating>>

\* ------------------------------------------------------------ specification
\* Instances and network interfaces are disjoint remote state, and no
\* operation touches both: a behaviour works on the one or on the other.
Init ==
  /\ scope \in {"ec2", "eni"}
  /\ instances = [i \in InstIds |-> NoInst]
  /\ run_state = Idle
  /\ enis = [e \in EniIds |-> NoEni]
  /\ creating = [c \in Callers |-> NotCreating]
  /\ last = NoCall
  /\ projected = NoObject
  /\ projections = <<>>

Next ==
  \/ Terminate
  \/ CreateImage
  \/ GetId
  \/ Exists
  \/ GetAttribute
  \/ SetAttribute
  \/ RunLaunch
  \/ RunPoll
  \/ InstanceTransition
  \/ GetNetworkInterfaceId
  \/ GetNetworkInterface
  \/ \E c \in Callers : CreateLookup(c)
  \/ \E c \in Callers : CreateCall(c)
  \/ \E c \in Callers : CreateTag(c)
  \/ DeleteNetworkInterface
  \/ AttachNetworkInterface
  \/ DetachNetworkInterface
  \/ ModifyNetworkInterfaceAttribute

Spec == Init /\ [][Next]_vars

InitDescribe ==
  /\ scope = "describe"
  /\ instances = [i \in InstIds |-> NoInst]
  /\ run_state = Idle
  /\ enis = [e \in EniIds |-> NoEni]
  /\ creating = [c \in Callers |-> NotCreating]
  /\ last = NoCall
  /\ projected \in EniObjects
  /\ projections = <<>>

NextDescribe == Describe

SpecDescribe == InitDescribe /\ [][NextDescribe]_vars

\* ------------------------------------------------------------------ claims
Answered(l) == Len(l.calls) > 0 /\ l.calls[1].ok

CallsOf(l, api) == CallsTo(l.calls, {api})

Mutations(l) == CallsTo(l.calls, MutatingApis)

EniOps ==
  {"get_network_interface_id", "get_network_interface",
   "create_network_interface", "delete_network_interface",
   "attach_network_interface", "detach_network_interface",
   "modify_network_interface_attribute"}

\* C1: terminate on a selector that matches two or more instances returns
\* False, issues no terminate call and changes no instance.
C1_TerminateRefusesMany ==
  (last.op = "terminate" /\ last.n >= 2) =>
    /\ last.out = "False"
    /\ CallsOf(last, "terminate") = {}
    /\ last.touched = {}

C1_Witness ==
  /\ last.op = "terminate"
  /\ last.n >= 2
  /\ Answered(last)
  /\ last.out = "False"

\* C2: a unique resolution whose query the provider answered gives the
\* resource when the selector matches exactly one, a not-found outcome when
\* it matches none, and an ambiguity error when it matches several.
InstanceResolvers == {"get_id", "get_attribute", "set_attribute"}

EniResolvers ==
  {"get_network_interface_id", "delete_network_interface",
   "attach_network_interface", "detach_network_interface",
   "modify_network_interface_attribute"}

Resolving(l) ==
  /\ Answered(l)
  /\ \/ l.op = "get_id"
     \/ l.op \in {"get_attribute", "set_attribute"} /\ l.sel = "name"
                                                    /\ l.arg = "listed"
     \/ l.op = "get_network_interface_id"
     \/ l.op \in EniResolvers /\ l.sel \in {"name", "id"}
                              /\ l.calls[1].api = "get_all_network_interfaces"

GaveResource(l) ==
  CASE l.op = "get_id" -> l.out = "value" /\ l.val \in l.matched
    [] l.op \in {"get_attribute", "set_attribute"} ->
         /\ Len(l.calls) = 2
         /\ l.calls[2].tgt \in l.matched
    [] l.op = "get_network_interface_id" ->
         l.keys = {"result"} /\ l.val \in l.matched
    [] OTHER -> l.msg \notin {NoEnisFound, MultipleEnis} /\ l.out = "value"

GaveNotFound(l) ==
  CASE l.op = "get_id" -> l.out = "None"
    [] l.op \in {"get_attribute", "set_attribute"} -> FALSE
    [] OTHER -> l.keys = {"error"} /\ l.msg = NoEnisFound

GaveAmbiguous(l) ==
  CASE l.op \in InstanceResolvers ->
         l.out = "raise" /\ l.exc = "CommandExecutionError"
    [] OTHER -> l.keys = {"error"} /\ l.msg = MultipleEnis

C2_ResolveUnique ==
  Resolving(last) =>
    /\ last.n = 1 => GaveResource(last)
    /\ last.n = 0 => GaveNotFound(last)
    /\ last.n > 1 => GaveAmbiguous(last)

\* C3: a mutating operation that resolves its target from a name issues no
\* mutating call when the name matches more than one resource; the mutating
\* calls it issues are on the one resource the name matched.
NameResolved(l) ==
  \/ l.op \in {"create_image", "terminate"} /\ l.sel \in {"name", "both"}
  \/ l.op = "set_attribute" /\ l.sel = "name"
  \/ /\ l.op \in {"delete_network_interface", "attach_network_interface",
                  "detach_network_interface",
                  "modify_network_interface_attribute"}
     /\ l.sel = "name"

C3_NoMutationOnAmbiguity ==
  NameResolved(last) =>
    /\ last.n > 1 => (Mutations(last) = {} /\ last.touched = {})
    /\ \A k \in Mutations(last) :
         last.n = 1 /\ last.calls[k].tgt \in last.matched
    /\ last.touched \subseteq last.matched

C3_Witness ==
  /\ last.op = "delete_network_interface"
  /\ last.sel = "name"
  /\ last.n > 1
  /\ Answered(last)
  /\ last.msg = MultipleEnis

C5_ValidationBeforeRemote ==
  /\ Len(attribute_list) = 13
  /\ (/\ last.op \in {"get_attribute", "set_attribute"}
      /\ (last.arg = "unlisted" \/ last.sel \in {"both", "none"})) =>
       /\ last.out = "raise"
       /\ last.exc = "SaltInvocationError"
       /\ last.calls = <<>>
       /\ last.touched = {}

C5_Witness ==
  /\ last.op = "set_attribute"
  /\ last.arg = "unlisted"
  /\ last.sel = "name"
  /\ last.n = 1
  /\ last.exc = "SaltInvocationError"

\* C6 (as stated): modify_network_interface_attribute of
\* delete_on_termination on an interface with no attachment fails with the
\* "no attachment id" error, issues no remote call and changes no interface.
OnUnattached(l) ==
  /\ l.op = "modify_network_interface_attribute"
  /\ l.arg = "delete_on_termination"
  /\ Answered(l)
  /\ l.n = 1
  /\ \A e \in l.matched : ~enis[e].attached

C6_NoRemoteCall ==
  OnUnattached(last) =>
    /\ last.keys = {"error"}
    /\ last.msg = NoAttachmentIdToModify
    /\ last.calls = <<>>
    /\ last.touched = {}

\* C6 (amended): modify_network_interface_attribute of delete_on_termination
\* on an interface with no attachment fails with the "no attachment id"
\* error and issues no mutating remote call: the one remote call it makes is
\* the lookup of the interface; no interface changes.
C6_NoMutatingCall ==
  OnUnattached(last) =>
    /\ last.keys = {"error"}
    /\ last.msg = NoAttachmentIdToModify
    /\ last.calls = <<LookupCall(TRUE)>>
    /\ last.touched = {}

C6_Witness ==
  /\ OnUnattached(last)
  /\ last.sel = "name"
  /\ last.msg = NoAttachmentIdToModify

\* C7: run stops polling after a bounded number of status checks: it makes
\* no more than MaxPolls of them on an instance that stays pending.
C7_RunStopsPolling == run_state.polls <= MaxPolls

\* C8: a value a network-interface operation returns is an envelope with
\* exactly one of the keys 'result' and 'error'.
C8_ExactlyOneKey ==
  last.op \in EniOps =>
    /\ last.out \in {"", "raise", "value"}
    /\ last.out = "value" => (last.keys = {"result"} \/ last.keys = {"error"})

C8_Witness ==
  /\ last.op = "delete_network_interface"
  /\ last.out = "value"
  /\ \E k \in CallsOf(last, "delete_network_interface") : ~last.calls[k].ok
  /\ last.keys = {"error"}

\* C9: when the provider rejects a remote call of an operation, the
\* operation returns a failure value and raises nothing.
Rejected(l) == \E k \in 1..Len(l.calls) : ~l.calls[k].ok

C9_RejectionNeverRaises ==
  Rejected(last) =>
    /\ last.out \in {"False", "None", "value"}
    /\ last.out = "value" => last.keys = {"error"}

\* C10: terminate on a selector that matches exactly one instance issues
\* exactly one terminate call, on that instance, and returns True when the
\* provider carries it out; no other instance changes.
C10_TerminateTheOne ==
  (last.op = "terminate" /\ Answered(last) /\ last.n = 1) =>
    /\ Cardinality(CallsOf(last, "terminate")) = 1
    /\ \A k \in CallsOf(last, "terminate") :
         /\ last.calls[k].tgt \in last.matched
         /\ last.calls[k].ok <=> last.out = "True"
         /\ last.calls[k].ok => instances[last.calls[k].tgt].status = "terminated"
    /\ last.touched \subseteq last.matched

C10_Witness ==
  /\ last.op = "terminate"
  /\ last.sel = "name"
  /\ last.n = 1
  /\ last.out = "True"
  /\ \E i \in InstIds : i \notin last.matched /\ instances[i].status = "running"

\* C11: when the provider rejects none of its calls, run returns True exactly
\* when the status it saw leave "pending" is "running"; it tags the instance
\* only then, and only after the status check; on a refused reservation and
\* on any other status it applies no tags and returns False.
RunFinished(l) == l.op = "run" /\ l.out # "" /\ ~Rejected(l)

TagCalls(l) == CallsTo(l.calls, {"add_tag", "add_tags"})

C11_RunTrueIffRunning ==
  RunFinished(last) =>
    /\ last.out = "True" <=> last.arg = "running"
    /\ \A k \in TagCalls(last) :
         /\ last.arg = "running"
         /\ \E j \in CallsOf(last, "update") : j < k
    /\ last.arg # "running" => (last.out = "False" /\ TagCalls(last) = {})

\* C12: _describe_network_interface is a function of its input alone: two
\* calls on the same object give the same record; an attribute of the list
\* is in the record exactly when the object has it, with the object's value;
\* 'groups' and 'private_ip_addresses' are always in the record, as
\* sequences in the object's order; and the object is left as it was.
Projects(r, eni) ==
  /\ \A a \in Elements(attr_list) : a \in DOMAIN r <=> a \in DOMAIN eni.attrs
  /\ \A a \in Elements(attr_list) \cap DOMAIN r : r[a] = eni.attrs[a]
  /\ "connection" \notin DOMAIN r
  /\ {"groups", "private_ip_addresses"} \subseteq DOMAIN r
  /\ DOMAIN r.groups = 1..Len(eni.groups)
  /\ \A k \in DOMAIN r.groups :
       r.groups[k] = [name |-> eni.groups[k].name, id |-> eni.groups[k].id]
  /\ DOMAIN r.private_ip_addresses = 1..Len(eni.private_ip_addresses)
  /\ \A k \in DOMAIN r.private_ip_addresses :
       r.private_ip_addresses[k] =
         [private_ip_address |-> eni.private_ip_addresses[k].private_ip_address,
          primary |-> eni.private_ip_addresses[k].primary]

C12_DescribeIsPure ==
  /\ [](\A k \in 1..Len(projections) :
          /\ projections[k] = projections[1]
          /\ Projects(projections[k], projected))
  /\ [][projected' = projected]_vars

C12_Witness ==
  /\ Len(projections) = 2
  /\ DOMAIN projected.attrs = {"status", "connection"}
  /\ projected.attrs["status"] = None
  /\ Len(projected.groups) = 2
  /\ projected.groups[1].name = "g2"
  /\ projected.groups[2].name = "g1"
  /\ projected.private_ip_addresses = <<>>

\* C13: create_network_interface returns an error envelope and issues no
\* create call when the subnet maps to no VPC id, and when the group names
\* resolve to no group ids.
C13_CreateFailureModes ==
  (/\ last.op = "create_network_interface"
   /\ last.arg \in {"no_vpc", "no_group_ids"}) =>
    /\ last.out = "value"
    /\ last.keys = {"error"}
    /\ CallsOf(last, "create_network_interface") = {}
    /\ last.touched = {}

\* C14: attach_network_interface raises a validation error, with no remote
\* call made, exactly when neither name nor network_interface_id is given,
\* or instance_id is not given, or device_index is not given; with a
\* selector, an instance id and any device index (0 included) it goes on to
\* look the interface up.
InputMissing(l) ==
  l.sel = "none" \/ l.arg \in {"no_instance_id", "no_device_index"}

ValidationRaised(l) ==
  l.out = "raise" /\ l.exc = "SaltInvocationError" /\ l.calls = <<>>

C14_AttachValidation ==
  last.op = "attach_network_interface" =>
    /\ ValidationRaised(last) <=> InputMissing(last)
    /\ ~InputMissing(last) =>
         (Len(last.calls) > 0 /\ last.calls[1] \in {LookupCall(TRUE), LookupCall(FALSE)})

\* C15: two create_network_interface calls of one name that interleave can
\* both find the name free and both create, leaving two interfaces with that
\* Name tag; a delete, attach, detach or modify by that name whose lookup the
\* provider then answers returns the 'tagged on multiple ENIs' error and
\* changes nothing.
Named(name) == {e \in EniIds : enis[e].present /\ enis[e].name = name}

ByNameMutation(l) ==
  /\ l.op \in {"delete_network_interface", "attach_network_interface",
               "detach_network_interface", "modify_network_interface_attribute"}
  /\ l.sel = "name"
  /\ Answered(l)

C15_RaceLeavesAmbiguousName ==
  (ByNameMutation(last) /\ last.n >= 2) =>
    /\ last.out = "value"
    /\ last.keys = {"error"}
    /\ last.msg = MultipleEnis
    /\ last.calls = <<LookupCall(TRUE)>>
    /\ last.touched = {}
    /\ Cardinality(Named("eni1")) = last.n

C15_Witness ==
  /\ Cardinality(Named("eni1")) = 2
  /\ last.op = "detach_network_interface"
  /\ last.sel = "name"
  /\ last.matched = Named("eni1")
  /\ last.msg = MultipleEnis

\* C16: when create_network_interface returns an error envelope, it has left
\* the provider's interfaces as they were: the call created none.
CreateFailed(l) ==
  l.op = "create_network_interface" /\ l.out = "value" /\ l.keys = {"error"}

C16_ErrorLeavesNothing ==
  CreateFailed(last) =>
    /\ last.touched = {}
    /\ \A k \in CallsOf(last, "create_network_interface") : ~last.calls[k].ok

=============================================================================
